---------------------------- MODULE Spec2Model ----------------------------
(***************************************************************************)
(* IntelliScan (src/app.py): upload handling, OCR pipeline, entity         *)
(* extraction and the file-per-record history store.                       *)
(*                                                                         *)
(* Text is a sequence of one-character strings, so that the regular        *)
(* expressions, str.split, str.join and the f-string of the source work on *)
(* characters as they do in Python.                                        *)
(***************************************************************************)
EXTENDS Integers, Sequences, FiniteSets, TLC

VARIABLES
  OCR_AVAILABLE,   \* module global set by the import of pytesseract/PIL
  PDF_AVAILABLE,   \* module global set by the import of pdf2image
  uploads,         \* the UPLOAD_FOLDER: path -> bytes of the file, or NoFile
  history,         \* the HISTORY_FOLDER: id -> content of <id>.json, or NoFile
  issued,          \* ids uuid4 has already produced
  req,             \* per worker thread: the upload request it is serving
  storeOp,         \* the last direct HistoryManager call and what it returned
  written,         \* id -> the entry the save that returned id wrote (ghost)
  procIn,          \* a call of process_image / process_pdf: the backends' behaviour
  procOut,         \* ... and what the call returned or raised
  text,            \* the argument of extract_phones
  ntok,            \* how many pieces text was assembled from
  phones           \* what extract_phones returned

vars == <<OCR_AVAILABLE, PDF_AVAILABLE, uploads, history, issued, req,
          storeOp, written, procIn, procOut, text, ntok, phones>>

\* a path at which no file exists
NoFile == [kind |-> "none"]

-----------------------------------------------------------------------------
(* Characters and strings                                                  *)

Digits == <<"0","1","2","3","4","5","6","7","8","9">>
UpperSeq == <<"A","B","C","D","E","F","G","H","I","J","K","L","M",
              "N","O","P","Q","R","S","T","U","V","W","X","Y","Z">>
LowerSeq == <<"a","b","c","d","e","f","g","h","i","j","k","l","m",
              "n","o","p","q","r","s","t","u","v","w","x","y","z">>

Range(s) == {s[i] : i \in DOMAIN s}

IsDigit(c) == c \in Range(Digits)
IsAlpha(c) == c \in Range(UpperSeq) \cup Range(LowerSeq)
\* \w of the re module
IsWord(c) == IsDigit(c) \/ IsAlpha(c) \/ c = "_"
\* \s of the re module, and the separators of str.split()
IsSpace(c) == c \in {" ", "\n", "\t", "\r", "\f"}

\* str.lower() on one character
LowerChar(c) ==
  IF c \in Range(UpperSeq)
    THEN LowerSeq[CHOOSE i \in DOMAIN UpperSeq : UpperSeq[i] = c]
    ELSE c

\* str.lower()
lower(s) == [i \in DOMAIN s |-> LowerChar(s[i])]

RECURSIVE Join(_, _)
\* sep.join(list)
Join(sep, ss) ==
  IF ss = <<>> THEN <<>>
  ELSE IF Len(ss) = 1 THEN ss[1]
  ELSE ss[1] \o sep \o Join(sep, Tail(ss))

\* len(s.split()): the number of maximal runs of non-whitespace characters
SplitCount(s) ==
  Cardinality({i \in DOMAIN s :
                 /\ ~IsSpace(s[i])
                 /\ (i = 1 \/ IsSpace(s[i-1]))})

RECURSIVE DecimalStr(_)
\* str(n) for n >= 0, as the f-string formats i+1
DecimalStr(n) ==
  IF n < 10 THEN <<Digits[n + 1]>>
  ELSE DecimalStr(n \div 10) \o <<Digits[(n % 10) + 1]>>

-----------------------------------------------------------------------------
(* EntityExtractor.extract_phones                                          *)

\* is there a word character at index i of t (none outside the text)
WordAt(t, i) == i \in DOMAIN t /\ IsWord(t[i])
\* \b between index p-1 and index p
Boundary(t, p) == WordAt(t, p - 1) # WordAt(t, p)
DigitsAt(t, p, n) == \A k \in 0..(n-1) : (p + k) \in DOMAIN t /\ IsDigit(t[p + k])
SepAt(t, p) == p \in DOMAIN t /\ t[p] \in {"-", "."}
SpaceAt(t, p) == p \in DOMAIN t /\ IsSpace(t[p])

\* r'\b\d{3}[-.]?\d{3}[-.]?\d{4}\b' tried at index p: the index after the
\* match, or 0. An optional separator is taken when the rest then matches
\* (greedy, with backtracking).
MatchPlain(t, p) ==
  IF ~(Boundary(t, p) /\ DigitsAt(t, p, 3)) THEN 0
  ELSE
    LET ways == {w \in {0,1} \X {0,1} :
                   /\ (w[1] = 1 => SepAt(t, p + 3))
                   /\ DigitsAt(t, p + 3 + w[1], 3)
                   /\ (w[2] = 1 => SepAt(t, p + 6 + w[1]))
                   /\ DigitsAt(t, p + 6 + w[1] + w[2], 4)
                   /\ Boundary(t, p + 10 + w[1] + w[2])}
        best == CHOOSE w \in ways :
                  \A v \in ways : w[1] > v[1] \/ (w[1] = v[1] /\ w[2] >= v[2])
    IN IF ways = {} THEN 0 ELSE p + 10 + best[1] + best[2]

\* r'\b\(\d{3}\)\s*\d{3}[-.]?\d{4}\b' tried at index p
MatchParen(t, p) ==
  IF ~(Boundary(t, p) /\ t[p] = "(" /\ DigitsAt(t, p + 1, 3)
         /\ (p + 4) \in DOMAIN t /\ t[p + 4] = ")") THEN 0
  ELSE
    LET ways == {w \in (0..(Len(t) - p)) \X {0,1} :
                   /\ \A k \in 0..(w[1]-1) : SpaceAt(t, p + 5 + k)
                   /\ DigitsAt(t, p + 5 + w[1], 3)
                   /\ (w[2] = 1 => SepAt(t, p + 8 + w[1]))
                   /\ DigitsAt(t, p + 8 + w[1] + w[2], 4)
                   /\ Boundary(t, p + 12 + w[1] + w[2])}
        best == CHOOSE w \in ways :
                  \A v \in ways : w[1] > v[1] \/ (w[1] = v[1] /\ w[2] >= v[2])
    IN IF ways = {} THEN 0 ELSE p + 12 + best[1] + best[2]

\* r'\b\+\d{1,3}\s?\d{1,14}\b' tried at index p
MatchIntl(t, p) ==
  IF ~(Boundary(t, p) /\ t[p] = "+") THEN 0
  ELSE
    LET ways == {w \in (1..3) \X {0,1} \X (1..14) :
                   /\ DigitsAt(t, p + 1, w[1])
                   /\ (w[2] = 1 => SpaceAt(t, p + 1 + w[1]))
                   /\ DigitsAt(t, p + 1 + w[1] + w[2], w[3])
                   /\ Boundary(t, p + 1 + w[1] + w[2] + w[3])}
        best == CHOOSE w \in ways :
                  \A v \in ways :
                    \/ w[1] > v[1]
                    \/ (w[1] = v[1] /\ w[2] > v[2])
                    \/ (w[1] = v[1] /\ w[2] = v[2] /\ w[3] >= v[3])
    IN IF ways = {} THEN 0 ELSE p + 1 + best[1] + best[2] + best[3]

PhonePatterns == {"plain", "paren", "intl"}

MatchAt(pat, t, p) ==
  CASE pat = "plain" -> MatchPlain(t, p)
    [] pat = "paren" -> MatchParen(t, p)
    [] pat = "intl"  -> MatchIntl(t, p)

RECURSIVE FindAllFrom(_, _, _)
\* re.findall(pattern, text): leftmost matches, scanned left to right without
\* overlap; as a set (the caller only keeps set(...))
FindAllFrom(pat, t, p) ==
  IF p > Len(t) THEN {}
  ELSE LET e == MatchAt(pat, t, p)
       IN IF e = 0 THEN FindAllFrom(pat, t, p + 1)
          ELSE {SubSeq(t, p, e - 1)} \cup FindAllFrom(pat, t, e)

findall(pat, t) == FindAllFrom(pat, t, 1)

\* list(set(phones)) of the matches of the three patterns
extract_phones(t) == UNION {findall(pat, t) : pat \in PhonePatterns}

-----------------------------------------------------------------------------
(* Numbers: a Python float that is a quotient of integers is kept as the   *)
(* exact quotient [n, d]; a value rounded to two decimals is kept as its   *)
(* integer number of hundredths.                                           *)

Zero == [n |-> 0, d |-> 1]

RECURSIVE Sum(_)
\* sum(list)
Sum(s) == IF s = <<>> THEN 0 ELSE Head(s) + Sum(Tail(s))

\* a + b
QAdd(a, b) == [n |-> a.n * b.d + b.n * a.d, d |-> a.d * b.d]
\* a / k
QDiv(a, k) == [n |-> a.n, d |-> a.d * k]

\* round(q, 2) for q >= 0, in hundredths: the nearest hundredth, a tie
\* going to the even one
round2(q) ==
  LET num == 100 * q.n
      lo  == num \div q.d
      rem == num % q.d
  IN IF 2 * rem < q.d THEN lo
     ELSE IF 2 * rem > q.d THEN lo + 1
     ELSE IF lo % 2 = 0 THEN lo ELSE lo + 1

IsPositive(c) == c > 0

\* PageConfidence averaging every entry of data['conf'], not only the
\* positive ones
PageConfidence_AllWords(image) ==
  IF ~image.data_ok \/ image.data = <<>> THEN Zero
  ELSE [n |-> Sum(image.data), d |-> Len(image.data)]

\* confidences = [int(conf) for conf in data['conf'] if int(conf) > 0]
\* sum(confidences) / len(confidences) if confidences else 0
\* and 0 when image_to_data raised
PageConfidence(image) ==
  IF ~image.data_ok THEN Zero
  ELSE LET confidences == SelectSeq(image.data, IsPositive)
       IN IF confidences = <<>> THEN Zero
          ELSE [n |-> Sum(confidences), d |-> Len(confidences)]

-----------------------------------------------------------------------------
(* DocumentProcessor.  The bytes of a file say what the two engines do on  *)
(* them:                                                                   *)
(*   [kind |-> "image", mode, text_ok, text, data_ok, data]                *)
(*        Image.open succeeds; image_to_string returns text (text_ok) or   *)
(*        raises; image_to_data returns data['conf'] = data (data_ok) or   *)
(*        raises                                                           *)
(*   [kind |-> "pdf", r200, r150]   what convert_from_path does at 200 and *)
(*        at 150 dpi: [ok, images], the list of page images, each          *)
(*        [text_ok, text, data_ok, data] as above, or it raises (~ok)      *)
(*   [kind |-> "corrupt"]   neither engine can read the bytes              *)
(* A call returns [kind |-> "returned", result, calls] or                  *)
(* [kind |-> "raised", error, calls]; calls lists the engine calls made,   *)
(* in order.                                                               *)

Raise(error, calls) == [kind |-> "raised", error |-> error, calls |-> calls]
Return(result, calls) == [kind |-> "returned", result |-> result, calls |-> calls]

\* a convert_from_path call that raised
NoImages == [ok |-> FALSE, images |-> <<>>]

\* PageBlock numbering the pages from 0
PageBlock_ZeroBased(i, t) ==
  <<"-","-","-"," ","P","a","g","e"," ">> \o DecimalStr(i)
     \o <<" ","-","-","-","\n">> \o t

\* f"--- Page {i+1} ---\n{text}" for the 0-based i
PageBlock(i, t) ==
  <<"-","-","-"," ","P","a","g","e"," ">> \o DecimalStr(i + 1)
     \o <<" ","-","-","-","\n">> \o t

\* img = Image.open(image_path), and img.convert('RGB') unless the mode is
\* 'RGB' or 'L'
OpenImage(file) ==
  IF file.kind # "image" THEN [kind |-> "unreadable"]
  ELSE IF file.mode \notin {"RGB", "L"} THEN [file EXCEPT !.mode = "RGB"]
  ELSE file

\* process_image with the image_to_data call outside the inner try
process_image_ConfidenceRequired(file) ==
  IF ~OCR_AVAILABLE THEN Raise("OCR libraries not installed", <<>>)
  ELSE
    LET img == OpenImage(file)
    IN IF img.kind # "image" THEN Raise("OCR processing failed", <<"Image.open">>)
       ELSE IF ~img.text_ok
         THEN Raise("OCR processing failed", <<"Image.open", "image_to_string">>)
       ELSE IF ~img.data_ok
         THEN Raise("OCR processing failed",
                    <<"Image.open", "image_to_string", "image_to_data">>)
       ELSE
         Return([text       |-> img.text,
                 confidence |-> round2(PageConfidence(img)),
                 word_count |-> SplitCount(img.text),
                 char_count |-> Len(img.text)],
                <<"Image.open", "image_to_string", "image_to_data">>)

process_image(file) ==
  IF ~OCR_AVAILABLE THEN Raise("OCR libraries not installed", <<>>)
  ELSE
    LET img == OpenImage(file)
    IN IF img.kind # "image" THEN Raise("OCR processing failed", <<"Image.open">>)
       ELSE IF ~img.text_ok
         THEN Raise("OCR processing failed", <<"Image.open", "image_to_string">>)
       ELSE
         LET avg_confidence == PageConfidence(img)
         IN Return([text       |-> img.text,
                    confidence |-> round2(avg_confidence),
                    word_count |-> SplitCount(img.text),
                    char_count |-> Len(img.text)],
                   <<"Image.open", "image_to_string", "image_to_data">>)

\* pdf2image.convert_from_path(pdf_path, dpi=...)
Rasterize(file, dpi) ==
  IF file.kind # "pdf" THEN NoImages
  ELSE IF dpi = 200 THEN file.r200 ELSE file.r150

RECURSIVE PageLoop(_, _, _, _, _)
\* for i, image in enumerate(images): ... and the return after the loop;
\* i is 0-based, all_text and total_confidence are the loop's accumulators
PageLoop(images, i, all_text, total_confidence, calls) ==
  IF i = Len(images)
    THEN LET combined_text  == Join(<<"\n", "\n">>, all_text)
             avg_confidence == IF images # <<>>
                                 THEN QDiv(total_confidence, Len(images))
                                 ELSE Zero
         IN Return([text       |-> combined_text,
                    confidence |-> round2(avg_confidence),
                    word_count |-> SplitCount(combined_text),
                    char_count |-> Len(combined_text),
                    page_count |-> Len(images)],
                   calls)
  ELSE
    LET image == images[i + 1]
    IN IF ~image.text_ok
         THEN Raise("PDF processing failed", Append(calls, "image_to_string"))
       ELSE PageLoop(images, i + 1,
                     Append(all_text, PageBlock(i, image.text)),
                     QAdd(total_confidence, PageConfidence(image)),
                     calls \o <<"image_to_string", "image_to_data">>)

\* process_pdf without the check of line 244
process_pdf_NoEmptyCheck(file) ==
  IF ~PDF_AVAILABLE THEN Raise("PDF processing libraries not installed", <<>>)
  ELSE IF ~OCR_AVAILABLE THEN Raise("OCR libraries not installed", <<>>)
  ELSE
    LET first  == Rasterize(file, 200)
        second == IF first.ok THEN first ELSE Rasterize(file, 150)
        calls  == IF first.ok THEN <<"convert200">>
                  ELSE <<"convert200", "convert150">>
    IN IF ~second.ok THEN Raise("PDF processing failed", calls)
       ELSE PageLoop(second.images, 0, <<>>, Zero, calls)

\* process_pdf without the 150 dpi attempt of line 242
process_pdf_NoFallback(file) ==
  IF ~PDF_AVAILABLE THEN Raise("PDF processing libraries not installed", <<>>)
  ELSE IF ~OCR_AVAILABLE THEN Raise("OCR libraries not installed", <<>>)
  ELSE
    LET first == Rasterize(file, 200)
        calls == <<"convert200">>
    IN IF ~first.ok THEN Raise("PDF processing failed", calls)
       ELSE IF first.images = <<>>
         THEN Raise("PDF processing failed: No pages found in PDF", calls)
       ELSE PageLoop(first.images, 0, <<>>, Zero, calls)

process_pdf(file) ==
  IF ~PDF_AVAILABLE THEN Raise("PDF processing libraries not installed", <<>>)
  ELSE IF ~OCR_AVAILABLE THEN Raise("OCR libraries not installed", <<>>)
  ELSE
    LET first  == Rasterize(file, 200)
        second == IF first.ok THEN first ELSE Rasterize(file, 150)
        calls  == IF first.ok THEN <<"convert200">>
                  ELSE <<"convert200", "convert150">>
    IN IF ~second.ok THEN Raise("PDF processing failed", calls)
       ELSE IF second.images = <<>>
         THEN Raise("PDF processing failed: No pages found in PDF", calls)
       ELSE PageLoop(second.images, 0, <<>>, Zero, calls)

-----------------------------------------------------------------------------
(* The pipeline on its own: one call of process_image or process_pdf on    *)
(* any bytes, under any availability of the two engines.                   *)

MaxPages == 2

SeqsUpTo(S, n) == UNION {[1..k -> S] : k \in 0..n}

\* recognized texts of a page: words, a page that prints a separator line,
\* an empty page
PageTexts == { <<"a"," ","b","\n">>,
               <<"-","-","-"," ","P","a","g","e"," ","2"," ","-","-","-">>,
               <<>> }

\* data['conf'] lists of a page
WordConfs == { <<>>, <<80>>, <<60, 60>>, <<-1, 60, 0>>, <<80, 81, 81>> }

PageImages ==
  {[text_ok |-> TRUE, text |-> t, data_ok |-> TRUE, data |-> c] :
      t \in PageTexts, c \in WordConfs}
  \cup {[text_ok |-> TRUE, text |-> t, data_ok |-> FALSE, data |-> <<>>] :
      t \in PageTexts}
  \cup {[text_ok |-> FALSE, text |-> <<>>, data_ok |-> TRUE, data |-> c] :
      c \in WordConfs}
  \cup {[text_ok |-> FALSE, text |-> <<>>, data_ok |-> FALSE, data |-> <<>>]}

Rasters == {[ok |-> TRUE, images |-> im] : im \in SeqsUpTo(PageImages, MaxPages)}

\* what a 150 dpi conversion gives for a PDF that also converts at 200 dpi
LowDpiPages ==
  [ok |-> TRUE,
   images |-> << [text_ok |-> TRUE, text |-> <<"a"," ","b","\n">>,
                  data_ok |-> TRUE, data |-> <<60, 60>>] >>]

\* a PDF converts at 200 dpi, and then at 150 dpi too or not, or raises at
\* 200 dpi, and then converts at 150 dpi or raises again
PdfFiles ==
  {[kind |-> "pdf", r200 |-> r, r150 |-> l] :
      r \in Rasters, l \in {NoImages, LowDpiPages}}
  \cup {[kind |-> "pdf", r200 |-> NoImages, r150 |-> r] : r \in Rasters \cup {NoImages}}

ImageFiles ==
  {[kind |-> "image", mode |-> m, text_ok |-> i.text_ok, text |-> i.text,
    data_ok |-> i.data_ok, data |-> i.data] :
      m \in {"RGB", "P"}, i \in PageImages}

ProcInputs == PdfFiles \cup ImageFiles \cup {[kind |-> "corrupt"], NoFile}

NoCall == [call |-> "none"]

CallProcessImage ==
  /\ procOut = NoCall
  /\ procOut' = [call |-> "process_image", out |-> process_image(procIn)]
  /\ UNCHANGED <<OCR_AVAILABLE, PDF_AVAILABLE, uploads, history, issued, req,
                 storeOp, written, procIn, text, ntok, phones>>

CallProcessPdf ==
  /\ procOut = NoCall
  /\ procOut' = [call |-> "process_pdf", out |-> process_pdf(procIn)]
  /\ UNCHANGED <<OCR_AVAILABLE, PDF_AVAILABLE, uploads, history, issued, req,
                 storeOp, written, procIn, text, ntok, phones>>

-----------------------------------------------------------------------------
(* allowed_file and werkzeug's secure_filename                             *)

ALLOWED_EXTENSIONS ==
  { <<"p","n","g">>, <<"j","p","g">>, <<"j","p","e","g">>, <<"p","d","f">>, <<"t","i","f","f">>, <<"b","m","p">> }

\* the index of the last '.' of s, or 0
LastDot(s) ==
  IF \E i \in DOMAIN s : s[i] = "."
    THEN CHOOSE i \in DOMAIN s : s[i] = "." /\ \A j \in DOMAIN s : s[j] = "." => j <= i
    ELSE 0

\* s.rsplit('.', 1)[1], for an s that holds a '.'
AfterLastDot(s) == SubSeq(s, LastDot(s) + 1, Len(s))

\* allowed_file without the look-up of the extension
allowed_file_AnyExtension(filename) == LastDot(filename) # 0

\* '.' in filename and filename.rsplit('.', 1)[1].lower() in ALLOWED_EXTENSIONS
allowed_file(filename) ==
  /\ LastDot(filename) # 0
  /\ lower(AfterLastDot(filename)) \in ALLOWED_EXTENSIONS

RECURSIVE Words(_)
\* s.split(): the maximal runs of non-whitespace characters
Words(s) ==
  IF s = <<>> THEN <<>>
  ELSE IF IsSpace(s[1]) THEN Words(Tail(s))
  ELSE LET stop == IF \E i \in DOMAIN s : IsSpace(s[i])
                     THEN CHOOSE i \in DOMAIN s :
                            IsSpace(s[i]) /\ \A j \in 1..(i-1) : ~IsSpace(s[j])
                     ELSE Len(s) + 1
       IN <<SubSeq(s, 1, stop - 1)>> \o Words(SubSeq(s, stop, Len(s)))

IsSafeChar(c) == IsWord(c) \/ c \in {".", "-"}

RECURSIVE Strip(_)
\* s.strip("._")
Strip(s) ==
  IF s = <<>> THEN s
  ELSE IF s[1] \in {".", "_"} THEN Strip(Tail(s))
  ELSE IF s[Len(s)] \in {".", "_"} THEN Strip(SubSeq(s, 1, Len(s) - 1))
  ELSE s

\* secure_filename(filename): path separators become spaces, the words are
\* joined by '_', every character outside [A-Za-z0-9_.-] is dropped, and
\* leading and trailing '.' and '_' are stripped
secure_filename(filename) ==
  LET spaced == [i \in DOMAIN filename |->
                   IF filename[i] = "/" THEN " " ELSE filename[i]]
      joined == Join(<<"_">>, Words(spaced))
  IN Strip(SelectSeq(joined, IsSafeChar))

-----------------------------------------------------------------------------
(* EntityExtractor.extract_all; of the five matchers, extract_phones is    *)
(* the one modelled                                                        *)

extract_all(t) == [phones |-> extract_phones(t)]

-----------------------------------------------------------------------------
(* HistoryManager: one file <id>.json per record in the HISTORY_FOLDER.    *)
(* A file is [exists, data]; data is the JSON text as its sequence of keys *)
(* and values, in the order json.dump writes them.                         *)

MaxIds == 2
Ids == 1..MaxIds

\* datetime.now().isoformat()
Timestamps == {"2024-01-05T10:00:00", "2024-01-05T10:00:01"}

NoJson == [exists |-> FALSE, data |-> <<>>]

\* history_entry = {'id': ..., 'filename': ..., ...}
HistoryEntry(history_id, filename, timestamp, result, entities) ==
  [id |-> history_id, filename |-> filename, timestamp |-> timestamp,
   result |-> result, entities |-> entities]

\* json.dump(history_entry, f, indent=2, ensure_ascii=False)
json_dump(entry) ==
  <<"id", entry.id, "filename", entry.filename, "timestamp", entry.timestamp,
    "result", entry.result, "entities", entry.entities>>

JsonKeys == <<"id", "filename", "timestamp", "result", "entities">>

\* json.load(f): the dict, or it raises on a text that is not a whole object
json_load(data) ==
  IF Len(data) = 2 * Len(JsonKeys)
       /\ \A k \in DOMAIN JsonKeys : data[2 * k - 1] = JsonKeys[k]
    THEN [kind |-> "returned",
          item |-> [id |-> data[2], filename |-> data[4], timestamp |-> data[6],
                    result |-> data[8], entities |-> data[10]]]
    ELSE [kind |-> "raised"]

\* open(history_file, 'w', encoding='utf-8'): the file exists and is empty
OpenForWrite(h, history_id) ==
  [h EXCEPT ![history_id] = [exists |-> TRUE, data |-> <<>>]]

\* what json.dump and the close of the file leave when the first k keys and
\* values reached the disk; all of them when nothing failed
WriteJson(h, history_id, entry, k) ==
  [h EXCEPT ![history_id] = [exists |-> TRUE, data |-> SubSeq(json_dump(entry), 1, k)]]

\* how many of the keys and values of an entry a failed write can leave in
\* the file: none, or all but the last
PartialWrites == {0, 2 * Len(JsonKeys) - 1}

\* HistoryManager.get_history_item(history_id): the item, None, or json.load raises
get_history_item(h, history_id) ==
  IF h[history_id].exists THEN json_load(h[history_id].data)
  ELSE [kind |-> "none"]

\* HistoryManager.delete_history_item(history_id): the value returned
delete_history_item(h, history_id) == h[history_id].exists

\* ... and the folder it leaves
AfterDelete(h, history_id) ==
  IF h[history_id].exists THEN [h EXCEPT ![history_id] = NoJson] ELSE h

-----------------------------------------------------------------------------
(* upload_file.  app.run(threaded=True) serves every request on a thread   *)
(* of its own; a thread's steps are the handler's accesses to the two      *)
(* folders, which other threads' steps may come between.  NumThreads       *)
(* requests arrive in all.                                                 *)

NumThreads == 2
Threads == 1..NumThreads

\* file.filename as the client sent it
FileNames == { <<"a",".","p","n","g">>,
               <<"/","a",".","p","n","g">>,
               <<"b",".","P","D","F">>,
               <<".","p","n","g">>,
               <<"c",".","t","x","t">>,
               <<"n","o","t","e","s">>,
               <<>> }

\* uploaded bytes
ScanA == [kind |-> "image", mode |-> "RGB", text_ok |-> TRUE, text |-> <<"a"," ","b","\n">>,
          data_ok |-> TRUE, data |-> <<80>>]
ScanB == [kind |-> "image", mode |-> "P", text_ok |-> TRUE, text |-> <<"c">>,
          data_ok |-> FALSE, data |-> <<>>]
PdfA  == [kind |-> "pdf",
          r200 |-> [ok |-> TRUE,
                    images |-> <<[text_ok |-> TRUE, text |-> <<"d">>,
                                  data_ok |-> TRUE, data |-> <<60, 60>>]>>],
          r150 |-> NoImages]
Garbage == [kind |-> "corrupt"]

UploadDocs == {ScanA, ScanB, PdfA, Garbage}

\* the files the UPLOAD_FOLDER can hold
Paths == {secure_filename(f) : f \in {g \in FileNames : allowed_file(g)}}

NoOutcome == [kind |-> "none"]

Idle ==
  [pc |-> "idle", has_file |-> FALSE, raw |-> <<>>, doc |-> NoFile,
   filepath |-> <<>>, outcome |-> NoOutcome, entities |-> [phones |-> {}],
   history_id |-> 0, status |-> 0,
   saved |-> FALSE, left |-> FALSE, wrote |-> FALSE, calls |-> <<>>]

\* return jsonify(...), status
Respond(r, status) == [r EXCEPT !.pc = "done", !.status = status]

\* lines 372-403: the request is parsed and validated, the name secured
Receive(t) ==
  /\ req[t].pc = "idle"
  /\ \/ \* 'file' not in request.files
        req' = [req EXCEPT ![t] = Respond(@, 400)]
     \/ \E raw \in FileNames :
          LET r == [req[t] EXCEPT !.has_file = TRUE, !.raw = raw]
          IN IF raw = <<>> THEN req' = [req EXCEPT ![t] = Respond(r, 400)]
             ELSE IF ~allowed_file(raw) THEN req' = [req EXCEPT ![t] = Respond(r, 400)]
             ELSE IF ~OCR_AVAILABLE THEN req' = [req EXCEPT ![t] = Respond(r, 500)]
             ELSE \E doc \in UploadDocs :
                    req' = [req EXCEPT ![t] =
                      [r EXCEPT !.pc = "save", !.doc = doc,
                                !.filepath = secure_filename(raw)]]
  /\ UNCHANGED <<OCR_AVAILABLE, PDF_AVAILABLE, uploads, history, issued,
                 storeOp, written, procIn, procOut, text, ntok, phones>>

\* line 407: file.save(filepath) writes the bytes, or raises having written
\* nothing or a truncated file
SaveUpload(t) ==
  /\ req[t].pc = "save"
  /\ \/ /\ uploads' = [uploads EXCEPT ![req[t].filepath] = req[t].doc]
        /\ req' = [req EXCEPT ![t].pc = "verify", ![t].saved = TRUE]
     \/ /\ uploads' \in {uploads, [uploads EXCEPT ![req[t].filepath] = Garbage]}
        /\ req' = [req EXCEPT ![t].pc = "except"]
  /\ UNCHANGED <<OCR_AVAILABLE, PDF_AVAILABLE, history, issued,
                 storeOp, written, procIn, procOut, text, ntok, phones>>

\* lines 410-424: the saved file is looked up, the extension taken from the
\* secured name, and a PDF refused when pdf2image is missing
VerifyUpload(t) ==
  /\ req[t].pc = "verify"
  /\ LET r == req[t]
     IN req' = [req EXCEPT ![t] =
          IF uploads[r.filepath].kind = "none" THEN [r EXCEPT !.pc = "except"]
          ELSE IF LastDot(r.filepath) = 0 THEN [r EXCEPT !.pc = "except"]
          ELSE IF lower(AfterLastDot(r.filepath)) = <<"p","d","f">> /\ ~PDF_AVAILABLE
            THEN Respond([r EXCEPT !.left = uploads[r.filepath].kind # "none"], 500)
          ELSE [r EXCEPT !.pc = "process"]]
  /\ UNCHANGED <<OCR_AVAILABLE, PDF_AVAILABLE, uploads, history, issued,
                 storeOp, written, procIn, procOut, text, ntok, phones>>

\* lines 420-434: the engines read the file at filepath; then extract_all
ProcessUpload(t) ==
  /\ req[t].pc = "process"
  /\ LET file == uploads[req[t].filepath]
         out  == IF lower(AfterLastDot(req[t].filepath)) = <<"p","d","f">>
                   THEN process_pdf(file) ELSE process_image(file)
     IN req' = [req EXCEPT ![t] =
          IF out.kind = "raised"
            THEN [@ EXCEPT !.pc = "except", !.outcome = out, !.calls = out.calls]
            ELSE [@ EXCEPT !.pc = "history", !.outcome = out, !.calls = out.calls,
                           !.entities = extract_all(out.result.text)]]
  /\ UNCHANGED <<OCR_AVAILABLE, PDF_AVAILABLE, uploads, history, issued,
                 storeOp, written, procIn, procOut, text, ntok, phones>>

\* line 437, save_result(filename, result, entities): a fresh uuid4, the
\* timestamp, open(..., 'w') and json.dump. The call returns the id with
\* the entry written; or open() raises and there is no file; or the write
\* raises and the file holds what was written before it did.
SaveHistory(t) ==
  /\ req[t].pc = "history"
  /\ \E id \in Ids \ issued, ts \in Timestamps :
       LET r     == req[t]
           entry == HistoryEntry(id, r.filepath, ts, r.outcome.result, r.entities)
           opened == OpenForWrite(history, id)
       IN /\ issued' = issued \cup {id}
          /\ \/ /\ history' = WriteJson(opened, id, entry, Len(json_dump(entry)))
                /\ req' = [req EXCEPT ![t].pc = "cleanup", ![t].history_id = id,
                                      ![t].wrote = TRUE]
             \/ /\ history' = history
                /\ req' = [req EXCEPT ![t].pc = "except"]
             \/ \E k \in PartialWrites :
                  /\ history' = WriteJson(opened, id, entry, k)
                  /\ req' = [req EXCEPT ![t].pc = "except", ![t].wrote = TRUE]
  /\ UNCHANGED <<OCR_AVAILABLE, PDF_AVAILABLE, uploads,
                 storeOp, written, procIn, procOut, text, ntok, phones>>

\* os.remove(filepath) inside try/except: the file is removed; or the call
\* raises (no such file, or the file cannot be removed) and the folder stays
Removed(filepath) ==
  IF uploads[filepath].kind = "none" THEN {uploads}
  ELSE {[uploads EXCEPT ![filepath] = NoFile], uploads}

\* lines 439-452: the temporary file is removed and the result returned
Cleanup(t) ==
  /\ req[t].pc = "cleanup"
  /\ uploads' \in Removed(req[t].filepath)
  /\ req' = [req EXCEPT ![t] =
       Respond([req[t] EXCEPT !.left = uploads'[req[t].filepath].kind # "none"], 200)]
  /\ UNCHANGED <<OCR_AVAILABLE, PDF_AVAILABLE, history, issued,
                 storeOp, written, procIn, procOut, text, ntok, phones>>

\* lines 454-468: the handler of every exception raised after line 372
Except(t) ==
  /\ req[t].pc = "except"
  /\ uploads' \in Removed(req[t].filepath)
  /\ req' = [req EXCEPT ![t] =
       Respond([req[t] EXCEPT !.left = uploads'[req[t].filepath].kind # "none"], 500)]
  /\ UNCHANGED <<OCR_AVAILABLE, PDF_AVAILABLE, history, issued,
                 storeOp, written, procIn, procOut, text, ntok, phones>>

-----------------------------------------------------------------------------
(* The history store on its own: HistoryManager called directly, one call  *)
(* after the other.                                                        *)

StoreNames == { <<"a",".","p","n","g">>, <<"b",".","P","D","F">> }

\* result dicts as process_image and process_pdf return them; confidence in
\* hundredths
StoreResults ==
  { [text |-> <<"a"," ","b","\n">>, confidence |-> 8000, word_count |-> 2, char_count |-> 4],
    [text |-> <<"-","-","-"," ","P","a","g","e"," ","1"," ","-","-","-","\n","d">>, confidence |-> 6000, word_count |-> 5,
     char_count |-> 16, page_count |-> 1] }

\* the (filename, result, entities) a caller hands to save_result
StoreArgs ==
  {[filename |-> f, result |-> r, entities |-> extract_all(r.text)] :
      f \in StoreNames, r \in StoreResults}

NoStoreOp == [op |-> "none", id |-> 0, got |-> NoOutcome, deleted |-> FALSE, existed |-> FALSE]

\* save_result(filename, result, entities) returns the id
StoreSave ==
  /\ \E id \in Ids \ issued, ts \in Timestamps, a \in StoreArgs :
       LET entry == HistoryEntry(id, a.filename, ts, a.result, a.entities)
       IN /\ issued' = issued \cup {id}
          /\ history' = WriteJson(OpenForWrite(history, id), id, entry,
                                  Len(json_dump(entry)))
          /\ written' = [written EXCEPT ![id] = <<entry>>]
          /\ storeOp' = [NoStoreOp EXCEPT !.op = "save", !.id = id]
  /\ UNCHANGED <<OCR_AVAILABLE, PDF_AVAILABLE, uploads, req,
                 procIn, procOut, text, ntok, phones>>

\* save_result raises: open() did, or the write after it did
StoreSaveRaises ==
  /\ \E id \in Ids \ issued, ts \in Timestamps, a \in StoreArgs :
       LET entry == HistoryEntry(id, a.filename, ts, a.result, a.entities)
       IN /\ issued' = issued \cup {id}
          /\ \/ history' = history
             \/ \E k \in PartialWrites :
                  history' = WriteJson(OpenForWrite(history, id), id, entry, k)
          /\ storeOp' = [NoStoreOp EXCEPT !.op = "save_raised"]
  /\ UNCHANGED <<OCR_AVAILABLE, PDF_AVAILABLE, uploads, req, written,
                 procIn, procOut, text, ntok, phones>>

\* get_history_item(history_id)
StoreGet ==
  /\ \E id \in Ids :
       storeOp' = [NoStoreOp EXCEPT !.op = "get", !.id = id,
                                    !.got = get_history_item(history, id),
                                    !.existed = (written[id] # <<>>)]
  /\ UNCHANGED <<OCR_AVAILABLE, PDF_AVAILABLE, uploads, history, issued, req,
                 written, procIn, procOut, text, ntok, phones>>

\* delete_history_item(history_id)
StoreDelete ==
  /\ \E id \in Ids :
       /\ storeOp' = [NoStoreOp EXCEPT !.op = "delete", !.id = id,
                                       !.deleted = delete_history_item(history, id),
                                       !.existed = (written[id] # <<>>)]
       /\ history' = AfterDelete(history, id)
       /\ written' = [written EXCEPT ![id] = <<>>]
  /\ UNCHANGED <<OCR_AVAILABLE, PDF_AVAILABLE, uploads, issued, req,
                 procIn, procOut, text, ntok, phones>>

-----------------------------------------------------------------------------
(* extract_phones on its own: a text put together from pieces              *)

MaxPieces == 3

Pieces == { <<"1","2","3","-","4","5","6","-","7","8","9","0">>,
            <<"(","1","2","3",")"," ","4","5","6","-","7","8","9","0">>,
            <<"+","1"," ","2","3","4","5","6","7","8","9","0">>,
            <<"1","2","3","4","5","6","7","8","9","0">>,
            <<" ">>,
            <<"x">> }

NoPhones == [ran |-> FALSE, found |-> {}]

AddPiece ==
  /\ ~phones.ran
  /\ ntok < MaxPieces
  /\ \E piece \in Pieces : text' = text \o piece
  /\ ntok' = ntok + 1
  /\ UNCHANGED <<OCR_AVAILABLE, PDF_AVAILABLE, uploads, history, issued, req,
                 storeOp, written, procIn, procOut, phones>>

ExtractPhones ==
  /\ ~phones.ran
  /\ phones' = [ran |-> TRUE, found |-> extract_phones(text)]
  /\ UNCHANGED <<OCR_AVAILABLE, PDF_AVAILABLE, uploads, history, issued, req,
                 storeOp, written, procIn, procOut, text, ntok>>

-----------------------------------------------------------------------------
(* Specifications                                                          *)

\* the state after the module is loaded: both folders empty, no request
Quiet ==
  /\ uploads = [p \in Paths |-> NoFile]
  /\ history = [id \in Ids |-> NoJson]
  /\ issued = {}
  /\ req = [t \in Threads |-> Idle]
  /\ storeOp = NoStoreOp
  /\ written = [id \in Ids |-> <<>>]
  /\ procIn = NoFile
  /\ procOut = NoCall
  /\ text = <<>>
  /\ ntok = 0
  /\ phones = NoPhones

Init ==
  /\ OCR_AVAILABLE \in BOOLEAN
  /\ PDF_AVAILABLE \in BOOLEAN
  /\ Quiet

Next ==
  \E t \in Threads :
    \/ Receive(t)
    \/ SaveUpload(t)
    \/ VerifyUpload(t)
    \/ ProcessUpload(t)
    \/ SaveHistory(t)
    \/ Cleanup(t)
    \/ Except(t)

\* the server: threads serving upload requests
Spec == Init /\ [][Next]_vars

InitStore ==
  /\ OCR_AVAILABLE = TRUE
  /\ PDF_AVAILABLE = TRUE
  /\ Quiet

NextStore == StoreSave \/ StoreSaveRaises \/ StoreGet \/ StoreDelete

SpecStore == InitStore /\ [][NextStore]_vars

InitProc ==
  /\ OCR_AVAILABLE \in BOOLEAN
  /\ PDF_AVAILABLE \in BOOLEAN
  /\ uploads = [p \in Paths |-> NoFile]
  /\ history = [id \in Ids |-> NoJson]
  /\ issued = {}
  /\ req = [t \in Threads |-> Idle]
  /\ storeOp = NoStoreOp
  /\ written = [id \in Ids |-> <<>>]
  /\ procIn \in ProcInputs
  /\ procOut = NoCall
  /\ text = <<>>
  /\ ntok = 0
  /\ phones = NoPhones

NextProc == CallProcessImage \/ CallProcessPdf

SpecProc == InitProc /\ [][NextProc]_vars

InitPhones ==
  /\ OCR_AVAILABLE = TRUE
  /\ PDF_AVAILABLE = TRUE
  /\ Quiet

NextPhones == AddPiece \/ ExtractPhones

SpecPhones == InitPhones /\ [][NextPhones]_vars

-----------------------------------------------------------------------------
(* Properties of upload_file, checked under Spec                           *)

Done(t) == req[t].pc = "done"

\* C1: whenever a request that saved its upload to the temporary path has
\* answered, the file at that path was gone when it answered.
C1_TempFileReleased ==
  \A t \in Threads : Done(t) /\ req[t].saved => ~req[t].left

\* C2: a request that answers 400 or 500 has written nothing to the
\* HISTORY_FOLDER, a request writes there only after its OCR and its entity
\* extraction returned, and every file of the folder is a whole record with
\* its result and its entities.
C2_PersistOnlyAfterSuccess ==
  /\ \A t \in Threads :
       /\ Done(t) /\ req[t].status \in {400, 500} => ~req[t].wrote
       /\ req[t].wrote => req[t].outcome.kind = "returned"
  /\ \A id \in Ids :
       history[id].exists =>
         LET loaded == json_load(history[id].data)
         IN /\ loaded.kind = "returned"
            /\ loaded.item.result \in
                 {req[t].outcome.result :
                    t \in {u \in Threads : req[u].outcome.kind = "returned"}}

\* C3: from the moment a request has saved its upload until its engines
\* have read it, the file at its path holds the bytes it uploaded (no other
\* request overwrote or deleted it), and what the engines made of the
\* request is what they make of its own bytes.
C3_RequestsIsolated ==
  \A t \in Threads :
    /\ req[t].pc \in {"verify", "process"} => uploads[req[t].filepath] = req[t].doc
    /\ req[t].outcome.kind # "none" =>
         req[t].outcome =
           IF lower(AfterLastDot(req[t].filepath)) = <<"p","d","f">>
             THEN process_pdf(req[t].doc) ELSE process_image(req[t].doc)

C4_Extensions == { <<"p","n","g">>, <<"j","p","g">>, <<"j","p","e","g">>, <<"p","d","f">>, <<"t","i","f","f">>, <<"b","m","p">> }

\* the name ends with a '.' and one of the six extensions, in any case
C4_HasAllowedExtension(name) ==
  \E e \in C4_Extensions :
    /\ Len(name) > Len(e)
    /\ name[Len(name) - Len(e)] = "."
    /\ lower(SubSeq(name, Len(name) - Len(e) + 1, Len(name))) = e

\* C4: an upload whose file name has none of the six extensions is answered
\* 400 at once: the request never saves a temporary file, calls no engine,
\* and writes nothing to the history, whatever OCR_AVAILABLE and
\* PDF_AVAILABLE are.
C4_DisallowedRejectedEarly ==
  \A t \in Threads :
    req[t].has_file /\ ~C4_HasAllowedExtension(req[t].raw) =>
      /\ Done(t)
      /\ req[t].status = 400
      /\ ~req[t].saved
      /\ ~req[t].wrote
      /\ req[t].calls = <<>>
      /\ req[t].outcome.kind = "none"
      /\ req[t].filepath = <<>>

C4_Witness ==
  \E t, u \in Threads :
    /\ req[t].raw = <<"c",".","t","x","t">> /\ req[t].status = 400
    /\ req[u].raw = <<"n","o","t","e","s">> /\ req[u].status = 400
    /\ ~PDF_AVAILABLE

-----------------------------------------------------------------------------
(* Properties of the history store, checked under SpecStore                *)

\* C5: get_history_item(id) returns the entry the save that returned id
\* wrote exactly when id was saved and not deleted since, and None
\* otherwise; delete_history_item(id) returns True exactly when that record
\* existed; and the record of a saved id stays as written until it is
\* deleted.
C5_StoreContract ==
  /\ storeOp.op = "get" =>
       IF storeOp.existed
         THEN /\ storeOp.got.kind = "returned"
              /\ storeOp.got.item = written[storeOp.id][1]
         ELSE storeOp.got.kind = "none"
  /\ storeOp.op = "delete" => storeOp.deleted = storeOp.existed
  /\ \A id \in Ids :
       written[id] # <<>> =>
         /\ history[id].exists
         /\ json_load(history[id].data) = [kind |-> "returned", item |-> written[id][1]]

-----------------------------------------------------------------------------
(* Properties of extract_phones, checked under SpecPhones                  *)

\* a phone number of each of the three shapes
C9_Samples == { <<"1","2","3","-","4","5","6","-","7","8","9","0">>,
                <<"(","1","2","3",")"," ","4","5","6","-","7","8","9","0">>,
                <<"+","1"," ","2","3","4","5","6","7","8","9","0">> }

\* s stands in t with whitespace or an end of the text on either side
C9_StandsAlone(s, t) ==
  \E i \in 1..(Len(t) - Len(s) + 1) :
    /\ SubSeq(t, i, i + Len(s) - 1) = s
    /\ (i = 1 \/ IsSpace(t[i - 1]))
    /\ (i + Len(s) > Len(t) \/ IsSpace(t[i + Len(s)]))

\* C9: every phone number of one of the three shapes that stands in the
\* text delimited by whitespace is among the phones extract_phones returns,
\* as written.
C9_AllShapesFound ==
  phones.ran =>
    \A s \in C9_Samples : C9_StandsAlone(s, text) => s \in phones.found

-----------------------------------------------------------------------------
(* Properties of process_image and process_pdf, checked under SpecProc     *)

\* the page images a process_pdf call works on
PdfImages ==
  IF procIn.kind # "pdf" THEN <<>>
  ELSE IF procIn.r200.ok THEN procIn.r200.images
  ELSE procIn.r150.images

PdfReturned == procOut.call = "process_pdf" /\ procOut.out.kind = "returned"

\* the separator line of page k, k < 10
C6_Separator(k) ==
  <<"-","-","-"," ","P","a","g","e"," ", Digits[k + 1], " ","-","-","-">>

RECURSIVE C6_Lines(_)
\* the lines of t
C6_Lines(t) ==
  IF \E i \in DOMAIN t : t[i] = "\n"
    THEN LET i == CHOOSE i \in DOMAIN t : t[i] = "\n" /\ \A j \in 1..(i-1) : t[j] # "\n"
         IN <<SubSeq(t, 1, i - 1)>> \o C6_Lines(SubSeq(t, i + 1, Len(t)))
    ELSE <<t>>

\* the page number a separator line names, 0 for any other line
C6_PageNo(line) ==
  IF \E k \in 1..9 : line = C6_Separator(k)
    THEN CHOOSE k \in 1..9 : line = C6_Separator(k)
    ELSE 0

\* the page numbers of the separator lines of t, in the order of the lines
C6_SeparatorLines(t) ==
  LET lines == C6_Lines(t)
  IN SelectSeq([i \in DOMAIN lines |-> C6_PageNo(lines[i])], IsPositive)

\* where the separator of page k starts in the text returned
C6_Start(k) ==
  1 + Sum([j \in 1..(k - 1) |-> 14 + 1 + Len(PdfImages[j].text) + 2])

\* page count n; for k = 1..n in this order the separator of page k, a
\* newline and the text recognized on page k; an empty line between pages
C6_Layout ==
  LET n == Len(PdfImages)
      t == procOut.out.result.text
  IN /\ n >= 1
     /\ procOut.out.result.page_count = n
     /\ \A k \in 1..n :
          LET at   == C6_Start(k)
              page == PdfImages[k].text
          IN /\ SubSeq(t, at, at + 13) = C6_Separator(k)
             /\ t[at + 14] = "\n"
             /\ SubSeq(t, at + 15, at + 14 + Len(page)) = page
             /\ IF k = n THEN Len(t) = at + 14 + Len(page)
                ELSE SubSeq(t, at + 15 + Len(page), at + 16 + Len(page)) = <<"\n", "\n">>

C6_NoPagePrintsSeparator ==
  \A k \in DOMAIN PdfImages : C6_SeparatorLines(PdfImages[k].text) = <<>>

\* C6 as amended: the text process_pdf returns is, for k = 1..n in ascending
\* order, the separator line of page k directly followed by page k's text,
\* with an empty line between pages, and page_count = n; its separator
\* lines are those n, one per page, when no page's own text holds a
\* separator line.
C6_PageLayout ==
  PdfReturned =>
    /\ C6_Layout
    /\ C6_NoPagePrintsSeparator =>
         C6_SeparatorLines(procOut.out.result.text) = [k \in 1..Len(PdfImages) |-> k]

\* C6: the text process_pdf returns holds exactly one separator line per
\* page, for k = 1..n in ascending order, each directly followed by its
\* page's text, the pages an empty line apart, and page_count = n.
C6_ExactlyOneSeparatorPerPage ==
  PdfReturned =>
    /\ C6_Layout
    /\ C6_SeparatorLines(procOut.out.result.text) = [k \in 1..Len(PdfImages) |-> k]

C6_Witness ==
  /\ PdfReturned
  /\ Len(PdfImages) = 2
  /\ PdfImages[1].text = <<"a"," ","b","\n">>
  /\ PdfImages[2].text = <<>>
  /\ procOut.out.result.text = <<"-","-","-"," ","P","a","g","e"," ","1"," ","-","-","-","\n","a"," ","b","\n","\n","\n","-","-","-"," ","P","a","g","e"," ","2"," ","-","-","-","\n">>

\* a page's own confidence: the mean of its positive word confidences, 0
\* when it has none or its confidence pass failed, as a quotient [n, d]
C7_PageMean(image) ==
  LET pos == {i \in DOMAIN image.data : image.data[i] > 0}
  IN IF ~image.data_ok \/ pos = {} THEN [n |-> 0, d |-> 1]
     ELSE [n |-> Sum([i \in DOMAIN image.data |->
                        IF i \in pos THEN image.data[i] ELSE 0]),
           d |-> Cardinality(pos)]

RECURSIVE C7_Total(_)
\* the sum of the pages' own confidences
C7_Total(images) ==
  IF images = <<>> THEN [n |-> 0, d |-> 1]
  ELSE LET h == C7_PageMean(Head(images))
           r == C7_Total(Tail(images))
       IN [n |-> h.n * r.d + r.n * h.d, d |-> h.d * r.d]

\* the mean over the pages of the pages' own confidences
C7_Mean == [n |-> C7_Total(PdfImages).n, d |-> C7_Total(PdfImages).d * Len(PdfImages)]

Abs(x) == IF x < 0 THEN -x ELSE x

\* c hundredths is a hundredth nearest to the quotient q
C7_Nearest(c, q) == 2 * Abs(c * q.d - 100 * q.n) <= q.d

\* C7 as amended: the confidence process_pdf returns is the mean over the
\* pages of each page's own confidence, rounded to two decimals; for page
\* confidences 80 and 60 it is 70.
C7_MeanOfPageMeans ==
  PdfReturned =>
    /\ C7_Nearest(procOut.out.result.confidence, C7_Mean)
    /\ ( /\ Len(PdfImages) = 2
         /\ C7_PageMean(PdfImages[1]) = [n |-> 80, d |-> 1]
         /\ C7_PageMean(PdfImages[2]).n = 60 * C7_PageMean(PdfImages[2]).d )
       => procOut.out.result.confidence = 7000

\* C7: the confidence process_pdf returns for a PDF of several pages is the
\* mean over the pages of each page's own confidence.
C7_ExactMeanOfPageMeans ==
  PdfReturned /\ Len(PdfImages) >= 2 =>
    procOut.out.result.confidence * C7_Mean.d = 100 * C7_Mean.n

\* two pages, one word of 80 and two words of 60: the mean of the page means
\* is 70, the mean of the three words is not
C7_Witness ==
  /\ PdfReturned
  /\ Len(PdfImages) = 2
  /\ PdfImages[1].data_ok /\ PdfImages[1].data = <<80>>
  /\ PdfImages[2].data_ok /\ PdfImages[2].data = <<60, 60>>
  /\ procOut.out.result.confidence = 7000

C8_ZeroPages ==
  /\ procIn.kind = "pdf"
  /\ \/ procIn.r200.ok /\ procIn.r200.images = <<>>
     \/ ~procIn.r200.ok /\ procIn.r150.ok /\ procIn.r150.images = <<>>

\* C8: when the rasterization of a PDF yields no page, at the first attempt
\* or at the fallback one, process_pdf raises; it never returns a result of
\* page_count 0.
C8_ZeroPagesFail ==
  procOut.call = "process_pdf" =>
    /\ C8_ZeroPages => procOut.out.kind = "raised"
    /\ procOut.out.kind = "returned" => procOut.out.result.page_count >= 1

C8_Witness ==
  /\ procOut.call = "process_pdf"
  /\ OCR_AVAILABLE /\ PDF_AVAILABLE
  /\ procIn.kind = "pdf"
  /\ ~procIn.r200.ok /\ procIn.r150.ok /\ procIn.r150.images = <<>>
  /\ procOut.out.kind = "raised"
  /\ procOut.out.calls = <<"convert200", "convert150">>

\* C10: when image_to_string returns and image_to_data raises, for an image
\* process_image returns the recognized text with confidence 0; for a PDF
\* whose pages are all recognized process_pdf returns, each such page's text
\* in its place and the page counted with confidence 0.
C10_ConfidenceBestEffort ==
  /\ ( /\ procOut.call = "process_image"
       /\ OCR_AVAILABLE
       /\ procIn.kind = "image" /\ procIn.text_ok /\ ~procIn.data_ok )
     => /\ procOut.out.kind = "returned"
        /\ procOut.out.result.text = procIn.text
        /\ procOut.out.result.confidence = 0
  /\ ( /\ procOut.call = "process_pdf"
       /\ OCR_AVAILABLE /\ PDF_AVAILABLE
       /\ PdfImages # <<>>
       /\ \A k \in DOMAIN PdfImages : PdfImages[k].text_ok )
     => /\ procOut.out.kind = "returned"
        /\ \A k \in DOMAIN PdfImages :
             ~PdfImages[k].data_ok =>
               SubSeq(procOut.out.result.text, C6_Start(k) + 15,
                      C6_Start(k) + 14 + Len(PdfImages[k].text)) = PdfImages[k].text
        /\ (\A k \in DOMAIN PdfImages : ~PdfImages[k].data_ok)
             => procOut.out.result.confidence = 0
        /\ C7_Nearest(procOut.out.result.confidence, C7_Mean)

\* a page whose confidence pass raised next to a page of confidence 80
C10_Witness ==
  /\ PdfReturned
  /\ Len(PdfImages) = 2
  /\ ~PdfImages[1].data_ok /\ PdfImages[1].text = <<"a"," ","b","\n">>
  /\ PdfImages[2].data_ok /\ PdfImages[2].data = <<80>>
  /\ procOut.out.result.confidence = 4000

\* how many times the engine call c was made
C11_Count(c) ==
  Cardinality({j \in DOMAIN procOut.out.calls : procOut.out.calls[j] = c})

C11_Last == procOut.out.calls[Len(procOut.out.calls)]

\* the 200 dpi conversion of the input raises
C11_FirstFails == procIn.kind # "pdf" \/ ~procIn.r200.ok

\* the 150 dpi conversion of the input raises
C11_SecondFails == procIn.kind # "pdf" \/ ~procIn.r150.ok

\* the calls a process_pdf call made after the conversions
C11_PageCalls ==
  SubSeq(procOut.out.calls, C11_Count("convert200") + C11_Count("convert150") + 1,
         Len(procOut.out.calls))

\* the first page whose text recognition raises, or 0
C11_FirstBadPage ==
  IF \E k \in DOMAIN PdfImages : ~PdfImages[k].text_ok
    THEN CHOOSE k \in DOMAIN PdfImages :
           /\ ~PdfImages[k].text_ok
           /\ \A j \in 1..(k - 1) : PdfImages[j].text_ok
    ELSE 0

\* with both engines present process_pdf converts at 200 dpi first and once;
\* it converts at 150 dpi, once and next, exactly when the 200 dpi conversion
\* raised; when that raises too the call raises with no further engine call
C11_Fallback ==
  (procOut.call = "process_pdf" /\ OCR_AVAILABLE /\ PDF_AVAILABLE) =>
    /\ procOut.out.calls[1] = "convert200"
    /\ C11_Count("convert200") = 1
    /\ C11_Count("convert150") = (IF C11_FirstFails THEN 1 ELSE 0)
    /\ C11_FirstFails => procOut.out.calls[2] = "convert150"
    /\ (C11_FirstFails /\ C11_SecondFails) =>
          /\ procOut.out.kind = "raised"
          /\ procOut.out.calls = <<"convert200", "convert150">>
    /\ (C11_FirstFails /\ ~C11_SecondFails /\ procIn.r150.images # <<>>
          /\ C11_FirstBadPage = 0) =>
          /\ procOut.out.kind = "returned"
          /\ procOut.out.result.page_count = Len(procIn.r150.images)
    /\ (~C11_FirstFails /\ procOut.out.kind = "returned") =>
          procOut.out.result.page_count = Len(procIn.r200.images)

\* the pages are recognized in order, each with one image_to_string and then
\* one image_to_data call; the first image_to_string that raises is the
\* call's last engine call and the call raises
C11_RecognitionOnce ==
  (procOut.call = "process_pdf" /\ OCR_AVAILABLE /\ PDF_AVAILABLE) =>
    /\ \A j \in DOMAIN C11_PageCalls :
         C11_PageCalls[j] = (IF j % 2 = 1 THEN "image_to_string" ELSE "image_to_data")
    /\ Len(C11_PageCalls) <= 2 * Len(PdfImages)
    /\ C11_FirstBadPage # 0 =>
          /\ procOut.out.kind = "raised"
          /\ Len(C11_PageCalls) = 2 * C11_FirstBadPage - 1
          /\ C11_Last = "image_to_string"
    /\ procOut.out.kind = "returned" => Len(C11_PageCalls) = 2 * Len(PdfImages)

\* process_image opens the file once, recognizes once and scores once; a
\* failing Image.open or image_to_string is its last engine call and the
\* call raises
C11_ImageOnce ==
  (procOut.call = "process_image" /\ OCR_AVAILABLE) =>
    /\ procOut.out.calls[1] = "Image.open"
    /\ \A c \in {"Image.open", "image_to_string", "image_to_data"} : C11_Count(c) <= 1
    /\ procIn.kind # "image" =>
          procOut.out.kind = "raised" /\ procOut.out.calls = <<"Image.open">>
    /\ (procIn.kind = "image" /\ ~procIn.text_ok) =>
          /\ procOut.out.kind = "raised"
          /\ procOut.out.calls = <<"Image.open", "image_to_string">>

\* a call that is missing an engine it needs raises before any engine call
C11_Unavailable ==
  /\ (procOut.call = "process_pdf" /\ ~(OCR_AVAILABLE /\ PDF_AVAILABLE)) =>
        procOut.out.kind = "raised" /\ procOut.out.calls = <<>>
  /\ (procOut.call = "process_image" /\ ~OCR_AVAILABLE) =>
        procOut.out.kind = "raised" /\ procOut.out.calls = <<>>

\* some image_to_data call of the call raised
C11_ConfidencePassFailed ==
  \/ /\ procOut.call = "process_image" /\ procIn.kind = "image" /\ ~procIn.data_ok
     /\ C11_Count("image_to_data") = 1
  \/ /\ procOut.call = "process_pdf"
     /\ \E k \in DOMAIN PdfImages :
          ~PdfImages[k].data_ok /\ Len(C11_PageCalls) >= 2 * k

\* a call whose Image.open, conversion and image_to_string calls all succeed
\* returns, whatever its image_to_data calls do
C11_OnlyThoseEndCall ==
  /\ (procOut.call = "process_pdf" /\ OCR_AVAILABLE /\ PDF_AVAILABLE
        /\ PdfImages # <<>> /\ C11_FirstBadPage = 0) => procOut.out.kind = "returned"
  /\ (procOut.call = "process_image" /\ OCR_AVAILABLE
        /\ procIn.kind = "image" /\ procIn.text_ok) => procOut.out.kind = "returned"

\* C11: process_pdf converts at 200 dpi first, at 150 dpi once exactly when
\* that raised, and raises with no further call when the 150 dpi conversion
\* raises too. No Image.open, image_to_string or image_to_data call is made
\* twice for the same image; a failing Image.open or image_to_string is the
\* last engine call and makes the call raise, while a failing image_to_data
\* alone never does: the call goes on to the next page and returns unless a
\* later image_to_string raises.
C11_RetryOnlyRasterization ==
  /\ C11_Fallback
  /\ C11_RecognitionOnce
  /\ C11_ImageOnce
  /\ C11_Unavailable
  /\ C11_OnlyThoseEndCall
  /\ (procOut.call # "none" /\ procOut.out.kind = "raised" /\ procOut.out.calls # <<>>) =>
        C11_Last \in {"convert150", "image_to_string", "Image.open"}
        \/ (C11_Last = "convert200" /\ PdfImages = <<>>)

\* C11 as stated: the failure of any engine call other than the 200 dpi
\* conversion, the confidence pass included, makes the call raise
C11_EveryBackendFailureEndsCall ==
  /\ C11_Fallback
  /\ C11_RecognitionOnce
  /\ C11_ImageOnce
  /\ (procOut.call # "none" /\ C11_ConfidencePassFailed) => procOut.out.kind = "raised"

\* the 200 dpi conversion raised, the 150 dpi one gave two pages, and the
\* second page's text recognition raised: five engine calls, the last one
\* the failing image_to_string
C11_Witness ==
  /\ procOut.call = "process_pdf"
  /\ OCR_AVAILABLE /\ PDF_AVAILABLE
  /\ procIn.kind = "pdf" /\ ~procIn.r200.ok /\ procIn.r150.ok
  /\ Len(procIn.r150.images) = 2
  /\ C11_FirstBadPage = 2
  /\ procOut.out.kind = "raised"
  /\ procOut.out.calls = <<"convert200", "convert150", "image_to_string",
                           "image_to_data", "image_to_string">>

=============================================================================
